---- MODULE Spec2Model ----
(***************************************************************************)
(* Model of the Karpenter construct of cdk-eks-karpenter: the constructor  *)
(* (chart repository selection by semver comparison, declaration of the    *)
(* IAM / Kubernetes / Helm resources and their dependency edges),          *)
(* addProvisioner, and a deployment that applies declared resources in any *)
(* order that respects the declared dependency edges.                      *)
(*                                                                         *)
(* Strings that the code inspects (the version) are sequences of one-      *)
(* character strings; strings that are only passed through are TLA+        *)
(* strings.  An optional value is <<>> (undefined) or <<v>>.               *)
(***************************************************************************)
EXTENDS Integers, Sequences, FiniteSets, TLC

VARIABLES status, props, this, constructs, manifests, serviceAccount, chart, deps, deployed

vars == <<status, props, this, constructs, manifests, serviceAccount, chart, deps, deployed>>

\* ------------------------------------------------------------------ bounds
MaxMajor == 1
MaxPatch == 1
MaxProvisioners == 2

\* ------------------------------------------------------- optional values
Undefined == <<>>
Some(x) == <<x>>
IsDefined(o) == o # Undefined
Val(o) == o[1]

\* a ?? b
Coalesce(o, d) == IF IsDefined(o) THEN Val(o) ELSE d

\* ------------------------------------------------------------ characters
Digits == {"0", "1", "2", "3", "4", "5", "6", "7", "8", "9"}
Letters == {"a", "b", "c", "e", "l", "r", "s", "t", "v", "x"}
Whitespace == {" "}

DigitVal(c) ==
  CASE c = "0" -> 0 [] c = "1" -> 1 [] c = "2" -> 2 [] c = "3" -> 3 [] c = "4" -> 4
    [] c = "5" -> 5 [] c = "6" -> 6 [] c = "7" -> 7 [] c = "8" -> 8 [] c = "9" -> 9

DigitChar(d) ==
  CASE d = 0 -> "0" [] d = 1 -> "1" [] d = 2 -> "2" [] d = 3 -> "3" [] d = 4 -> "4"
    [] d = 5 -> "5" [] d = 6 -> "6" [] d = 7 -> "7" [] d = 8 -> "8" [] d = 9 -> "9"

\* UTF-16 code unit of the characters a prerelease identifier can hold
CharCode(c) ==
  CASE c = "-" -> 45
    [] c \in Digits -> 48 + DigitVal(c)
    [] c = "a" -> 97 [] c = "b" -> 98 [] c = "c" -> 99 [] c = "e" -> 101
    [] c = "l" -> 108 [] c = "r" -> 114 [] c = "s" -> 115 [] c = "t" -> 116
    [] c = "v" -> 118 [] c = "x" -> 120

\* --------------------------------------------------------- string helpers
RECURSIVE TrimLeft(_)
TrimLeft(s) ==
  IF s # <<>> /\ Head(s) \in Whitespace THEN TrimLeft(Tail(s)) ELSE s

RECURSIVE TrimRight(_)
TrimRight(s) ==
  IF s # <<>> /\ s[Len(s)] \in Whitespace THEN TrimRight(SubSeq(s, 1, Len(s) - 1)) ELSE s

Trim(s) == TrimRight(TrimLeft(s))

\* index of the first character of s that is in cs, or Len(s) + 1
RECURSIVE IndexOfAny(_, _, _)
IndexOfAny(s, cs, i) ==
  IF i > Len(s) THEN i
  ELSE IF s[i] \in cs THEN i
  ELSE IndexOfAny(s, cs, i + 1)

\* s.split(sep)
RECURSIVE Split(_, _)
Split(s, sep) ==
  LET i == IndexOfAny(s, {sep}, 1)
  IN IF i > Len(s) THEN <<s>>
     ELSE <<SubSeq(s, 1, i - 1)>> \o Split(SubSeq(s, i + 1, Len(s)), sep)

AllIn(s, cs) == \A i \in 1..Len(s) : s[i] \in cs

\* +id for a string of digits
RECURSIVE ToNumber(_)
ToNumber(s) ==
  IF s = <<>> THEN 0 ELSE 10 * ToNumber(SubSeq(s, 1, Len(s) - 1)) + DigitVal(s[Len(s)])

\* String(n)
RECURSIVE NumStr(_)
NumStr(n) ==
  IF n < 10 THEN <<DigitChar(n)>> ELSE NumStr(n \div 10) \o <<DigitChar(n % 10)>>

\* ------------------------------------------------------------------ semver
\* 0|[1-9]\d*
IsNumericIdentifier(s) ==
  /\ s # <<>>
  /\ AllIn(s, Digits)
  /\ (Len(s) > 1 => s[1] # "0")

\* \d*[a-zA-Z-][a-zA-Z0-9-]*
IsNonNumericIdentifier(s) ==
  /\ AllIn(s, Digits \cup Letters \cup {"-"})
  /\ \E i \in 1..Len(s) : s[i] \in Letters \cup {"-"}

IsPrereleaseIdentifier(s) == IsNumericIdentifier(s) \/ IsNonNumericIdentifier(s)

\* [0-9A-Za-z-]+
IsBuildIdentifier(s) == s # <<>> /\ AllIn(s, Digits \cup Letters \cup {"-"})

Invalid == [valid |-> FALSE]

\* new SemVer(version): trim, then match ^v?MAIN(-PRERELEASE)?(\+BUILD)?$
SemVer(version) ==
  LET t == Trim(version)
      u == IF t # <<>> /\ Head(t) = "v" THEN Tail(t) ELSE t
      m == IndexOfAny(u, {"-", "+"}, 1)
      main == Split(SubSeq(u, 1, m - 1), ".")
      hasPre == m <= Len(u) /\ u[m] = "-"
      afterMain == SubSeq(u, m + 1, Len(u))
      b == IF hasPre THEN IndexOfAny(afterMain, {"+"}, 1) ELSE 0
      hasBuild == IF hasPre THEN b <= Len(afterMain) ELSE m <= Len(u)
      pre == IF hasPre THEN Split(SubSeq(afterMain, 1, b - 1), ".") ELSE <<>>
      build == IF hasBuild THEN Split(SubSeq(afterMain, b + 1, Len(afterMain)), ".") ELSE <<>>
  IN IF /\ Len(main) = 3
        /\ \A i \in 1..3 : IsNumericIdentifier(main[i])
        /\ \A i \in 1..Len(pre) : IsPrereleaseIdentifier(pre[i])
        /\ \A i \in 1..Len(build) : IsBuildIdentifier(build[i])
     THEN [valid |-> TRUE,
           major |-> ToNumber(main[1]),
           minor |-> ToNumber(main[2]),
           patch |-> ToNumber(main[3]),
           prerelease |-> pre]
     ELSE Invalid

CompareNumbers(a, b) == IF a = b THEN 0 ELSE IF a < b THEN -1 ELSE 1

\* a < b for strings, by code unit
RECURSIVE StringLess(_, _)
StringLess(a, b) ==
  IF b = <<>> THEN FALSE
  ELSE IF a = <<>> THEN TRUE
  ELSE IF Head(a) # Head(b) THEN CharCode(Head(a)) < CharCode(Head(b))
  ELSE StringLess(Tail(a), Tail(b))

\* compareIdentifiers: numeric identifiers sort numerically and before others
CompareIdentifiers(a, b) ==
  LET anum == AllIn(a, Digits)
      bnum == AllIn(b, Digits)
  IN IF anum /\ bnum THEN CompareNumbers(ToNumber(a), ToNumber(b))
     ELSE IF a = b THEN 0
     ELSE IF anum /\ ~bnum THEN -1
     ELSE IF bnum /\ ~anum THEN 1
     ELSE IF StringLess(a, b) THEN -1 ELSE 1

CompareMain(a, b) ==
  IF CompareNumbers(a.major, b.major) # 0 THEN CompareNumbers(a.major, b.major)
  ELSE IF CompareNumbers(a.minor, b.minor) # 0 THEN CompareNumbers(a.minor, b.minor)
  ELSE CompareNumbers(a.patch, b.patch)

RECURSIVE ComparePreFrom(_, _, _)
ComparePreFrom(p, q, i) ==
  IF i > Len(p) /\ i > Len(q) THEN 0
  ELSE IF i > Len(q) THEN 1
  ELSE IF i > Len(p) THEN -1
  ELSE IF p[i] = q[i] THEN ComparePreFrom(p, q, i + 1)
  ELSE CompareIdentifiers(p[i], q[i])

\* a version with a prerelease is lower than the same version without one
ComparePre(a, b) ==
  IF a.prerelease # <<>> /\ b.prerelease = <<>> THEN -1
  ELSE IF a.prerelease = <<>> /\ b.prerelease # <<>> THEN 1
  ELSE IF a.prerelease = <<>> /\ b.prerelease = <<>> THEN 0
  ELSE ComparePreFrom(a.prerelease, b.prerelease, 1)

Compare(a, b) == IF CompareMain(a, b) # 0 THEN CompareMain(a, b) ELSE ComparePre(a, b)

\* semver.lt(a, b) throws a TypeError when either side does not parse
LtThrows(a, b) == ~SemVer(a).valid \/ ~SemVer(b).valid

Lt_lte(a, b) == Compare(SemVer(a), SemVer(b)) <= 0

Lt(a, b) == Compare(SemVer(a), SemVer(b)) < 0

\* ------------------------------------------------------------------ inputs
V_PREFIX == <<"v">>
RC == <<"-", "r", "c">>
Minors == {6, 16, 17}

\* well-formed release names around the threshold, with and without the
\* "v" prefix and a prerelease tag
ReleaseVersions ==
  { pre \o NumStr(ma) \o <<".">> \o NumStr(mi) \o <<".">> \o NumStr(pa) \o suf :
      pre \in {<<>>, V_PREFIX}, ma \in 0..MaxMajor, mi \in Minors,
      pa \in 0..MaxPatch, suf \in {<<>>, RC} }

OtherVersions ==
  { <<>>,
    <<"l", "a", "t", "e", "s", "t">>,
    <<"0", ".", "1", "7">>,
    <<"v", "0", ".", "6">>,
    <<"0", "0", ".", "6", ".", "0">>,
    <<"0", ".", "6", ".", "0", "-">>,
    <<"x", "0", ".", "6", ".", "0">>,
    <<" ", "v", "0", ".", "6", ".", "0", " ">>,
    <<"0", ".", "1", "7", ".", "0", "+", "b", "1">>,
    <<"0", ".", "1", "7", ".", "0", "-", "r", "c", ".", "1", "+", "b">>,
    <<"0", ".", "1", "6", ".", "9", "-", "0", "1">> }

Versions == ReleaseVersions \cup OtherVersions

Namespaces == {"kar-penter"}
HelmRepositories == {"oci://repository.test.url"}
ProvisionerIds == {"default", "gpu", "spot", "namespace"}
ProvisionerSpecs == {[ttlSecondsAfterEmpty |-> 30]}

Opt(S) == {Undefined} \cup {Some(x) : x \in S}

KarpenterProps ==
  [namespace : Opt(Namespaces), version : Opt(Versions), helmRepository : Opt(HelmRepositories)]

\* ------------------------------------------------------------- constants
THRESHOLD == <<"0", ".", "1", "7", ".", "0">>
LEGACY_REPOSITORY == "https://charts.karpenter.sh"
DEFAULT_REPOSITORY == "oci://public.ecr.aws/karpenter"
DEFAULT_NAMESPACE == "karpenter"

\* ----------------------------------------------------------- construct ids
NodeRoleId == <<"Role", "NodeRole">>
InstanceProfileId == <<"CfnInstanceProfile", "InstanceProfile">>
RoleMappingId == <<"AwsAuthRoleMapping", "NodeRole">>
ServiceAccountId == <<"ServiceAccount", "karpenter">>
ControllerPolicyId == <<"Policy", "ControllerPolicy">>
ChartId == <<"chart", "karpenter">>
ManifestId(id) == <<"manifest", id>>
NamespaceId == ManifestId("namespace")

\* ------------------------------------------------------------ constructor
VersionCompareThrows_always(p) ==
  /\ p.version # Undefined
  /\ LtThrows(Val(p.version), THRESHOLD)

\* the version comparison is reached, and throws
VersionCompareThrows(p) ==
  /\ p.helmRepository = Undefined
  /\ p.version # Undefined
  /\ LtThrows(Val(p.version), THRESHOLD)

SelectHelmRepository_versionFirst(p) ==
  IF p.version # Undefined /\ ~LtThrows(Val(p.version), THRESHOLD) /\ Lt(Val(p.version), THRESHOLD)
  THEN LEGACY_REPOSITORY
  ELSE IF p.helmRepository # Undefined THEN Val(p.helmRepository)
  ELSE DEFAULT_REPOSITORY

\* set helmRepository
SelectHelmRepository(p) ==
  IF p.helmRepository # Undefined THEN Val(p.helmRepository)
  ELSE IF p.version # Undefined /\ Lt(Val(p.version), THRESHOLD) THEN LEGACY_REPOSITORY
  ELSE DEFAULT_REPOSITORY

NamespaceManifest(ns) ==
  [apiVersion |-> "v1", kind |-> "Namespace", metadata |-> [name |-> ns]]

ServiceAccountEdges_none == {}

ServiceAccountEdges == {<<ServiceAccountId, NamespaceId>>}

ChartEdges == {<<ChartId, NamespaceId>>}

HelmChartOptions_stripV(repository, ns, version) ==
  [wait |-> TRUE, chart |-> "karpenter", release |-> "karpenter",
   repository |-> repository, namespace |-> ns,
   version |-> IF version # Undefined /\ Val(version) # <<>> /\ Head(Val(version)) = "v"
               THEN Some(Tail(Val(version))) ELSE version,
   createNamespace |-> FALSE]

HelmChartOptions(repository, ns, version) ==
  [wait |-> TRUE, chart |-> "karpenter", release |-> "karpenter",
   repository |-> repository, namespace |-> ns, version |-> version,
   createNamespace |-> FALSE]

NoProps == [namespace |-> Undefined, version |-> Undefined, helmRepository |-> Undefined]
NoThis == [namespace |-> Undefined, version |-> Undefined, helmRepository |-> Undefined]
NoManifests == <<>>

Init ==
  /\ status = "new"
  /\ props = NoProps
  /\ this = NoThis
  /\ constructs = {}
  /\ manifests = NoManifests
  /\ serviceAccount = Undefined
  /\ chart = Undefined
  /\ deps = {}
  /\ deployed = {}

\* new Karpenter(scope, id, props)
Karpenter ==
  /\ status = "new"
  /\ \E p \in KarpenterProps :
       LET ns == Coalesce(p.namespace, DEFAULT_NAMESPACE)
       IN /\ props' = p
          /\ IF VersionCompareThrows(p)
             THEN /\ status' = "threw"
                  /\ this' = [namespace |-> Some(ns), version |-> p.version,
                              helmRepository |-> Undefined]
                  /\ UNCHANGED <<constructs, manifests, serviceAccount, chart, deps>>
             ELSE /\ status' = "constructed"
                  /\ this' = [namespace |-> Some(ns), version |-> p.version,
                              helmRepository |-> Some(SelectHelmRepository(p))]
                  /\ constructs' = {NodeRoleId, InstanceProfileId, RoleMappingId, NamespaceId,
                                    ServiceAccountId, ControllerPolicyId, ChartId}
                  /\ manifests' = ("namespace" :> NamespaceManifest(ns))
                  /\ serviceAccount' = Some([namespace |-> ns])
                  /\ chart' = Some(HelmChartOptions(SelectHelmRepository(p), ns, p.version))
                  /\ deps' = ServiceAccountEdges \cup ChartEdges
  /\ UNCHANGED deployed

\* -------------------------------------------------------- addProvisioner
ProvisionerManifest_defaultNs(id, ns, provisionerSpec) ==
  [apiVersion |-> "karpenter.sh/v1alpha5", kind |-> "Provisioner",
   metadata |-> [name |-> id, namespace |-> DEFAULT_NAMESPACE], spec |-> provisionerSpec]

ProvisionerManifest(id, ns, provisionerSpec) ==
  [apiVersion |-> "karpenter.sh/v1alpha5", kind |-> "Provisioner",
   metadata |-> [name |-> id, namespace |-> ns], spec |-> provisionerSpec]

ProvisionerEdges_namespace(id) == {<<ManifestId(id), NamespaceId>>}

ProvisionerEdges(id) == {<<ManifestId(id), ChartId>>}

Provisioners == {id \in DOMAIN manifests : manifests[id].kind = "Provisioner"}

\* karpenter.addProvisioner(id, provisionerSpec); the cluster rejects a
\* manifest id that is already in use, and then nothing is added
AddProvisioner ==
  /\ status = "constructed"
  /\ Cardinality(Provisioners) < MaxProvisioners
  /\ \E id \in ProvisionerIds, provisionerSpec \in ProvisionerSpecs :
       IF ManifestId(id) \in constructs
       THEN UNCHANGED <<constructs, manifests, deps>>
       ELSE /\ manifests' = (id :> ProvisionerManifest(id, Val(this.namespace), provisionerSpec)) @@ manifests
            /\ constructs' = constructs \cup {ManifestId(id)}
            /\ deps' = deps \cup ProvisionerEdges(id)
  /\ UNCHANGED <<status, props, this, serviceAccount, chart, deployed>>

\* ------------------------------------------------------------- deployment
DependenciesOf(r) == {d \in constructs : <<r, d>> \in deps}

\* a declared resource is created once everything it depends on exists
Deploy ==
  /\ status = "constructed"
  /\ \E r \in constructs \ deployed :
       /\ DependenciesOf(r) \subseteq deployed
       /\ deployed' = deployed \cup {r}
  /\ UNCHANGED <<status, props, this, constructs, manifests, serviceAccount, chart, deps>>

Next == Karpenter \/ AddProvisioner \/ Deploy

Spec == Init /\ [][Next]_vars

\* ------------------------------------------------------------- properties
V_0_6_0 == <<"v", "0", ".", "6", ".", "0">>
V_0_17_0 == <<"v", "0", ".", "1", "7", ".", "0">>
LATEST == <<"l", "a", "t", "e", "s", "t">>

Created == status = "constructed"
TheChart == Val(chart)
InstallNamespace == Coalesce(props.namespace, DEFAULT_NAMESPACE)

\* "semver-less-than 0.17.0", stated on the parsed fields: below 0.17 in
\* major.minor, or a prerelease of 0.17.0 itself
BelowThreshold(v) ==
  LET sv == SemVer(v)
  IN /\ sv.valid
     /\ sv.major = 0
     /\ \/ sv.minor < 17
        \/ sv.minor = 17 /\ sv.patch = 0 /\ sv.prerelease # <<>>

C2_CustomRepositoryWins ==
  (status # "new" /\ props.helmRepository # Undefined) =>
    /\ Created
    /\ TheChart.repository = Val(props.helmRepository)
    /\ TheChart.repository # LEGACY_REPOSITORY

C2_Witness ==
  /\ Created
  /\ props.helmRepository # Undefined
  /\ props.version = Some(V_0_6_0)
  /\ TheChart.repository = Val(props.helmRepository)

\* C3: the chart's version is the version prop character for character
\* when one is supplied, and is absent when none is.
C3_VersionPassthrough ==
  Created =>
    /\ TheChart.version = props.version
    /\ (props.version = Undefined <=> TheChart.version = Undefined)
    /\ (props.version # Undefined => Val(TheChart.version) = Val(props.version))

C3_Witness ==
  /\ Created
  /\ props.helmRepository = Undefined
  /\ TheChart.version = Some(V_0_6_0)
  /\ TheChart.repository = LEGACY_REPOSITORY
  /\ ChartId \in deployed

\* C4: one namespace value, the prop or 'karpenter', is used for the
\* Namespace manifest's name, the service account, the chart and every
\* provisioner manifest.
C4_NamespaceConsistent ==
  Created =>
    /\ this.namespace = Some(InstallNamespace)
    /\ manifests["namespace"].kind = "Namespace"
    /\ manifests["namespace"].metadata.name = InstallNamespace
    /\ Val(serviceAccount).namespace = InstallNamespace
    /\ TheChart.namespace = InstallNamespace
    /\ \A id \in Provisioners : manifests[id].metadata.namespace = InstallNamespace

C4_Witness ==
  /\ Created
  /\ props.namespace = Some("kar-penter")
  /\ Cardinality(Provisioners) = 2
  /\ \A id \in Provisioners : manifests[id].metadata.namespace = "kar-penter"

\* C5: the service account and the chart each carry a dependency edge on
\* the Namespace manifest, and whenever either of them is created the
\* namespace has already been created.
C5_NamespaceFirst ==
  [][ /\ (status' = "constructed" =>
            /\ <<ServiceAccountId, NamespaceId>> \in deps'
            /\ <<ChartId, NamespaceId>> \in deps')
      /\ \A r \in {ServiceAccountId, ChartId} :
            (r \in deployed' /\ r \notin deployed) => NamespaceId \in deployed ]_vars

C5_Witness ==
  /\ Created
  /\ {NamespaceId, ServiceAccountId, ChartId} \subseteq deployed
  /\ Provisioners = {}

\* C6: every provisioner manifest depends on the chart, which is installed
\* with wait: true, so none is applied before the chart is installed nor
\* before the namespace exists.
C6_ProvisionerAfterChart ==
  \A id \in Provisioners :
    /\ ManifestId(id) \in constructs
    /\ <<ManifestId(id), ChartId>> \in deps
    /\ TheChart.wait = TRUE
    /\ (ManifestId(id) \in deployed => ChartId \in deployed /\ NamespaceId \in deployed)

C6_Witness ==
  /\ Cardinality(Provisioners) = 2
  /\ \A id \in Provisioners : ManifestId(id) \in deployed

\* C7: construction throws exactly when no helmRepository is supplied and
\* the version is not valid semver, and then nothing has been declared;
\* with a helmRepository the same version is accepted and passed through.
C7_InvalidVersion ==
  status # "new" =>
    /\ (status = "threw") <=>
         /\ props.helmRepository = Undefined
         /\ props.version # Undefined
         /\ ~SemVer(Val(props.version)).valid
    /\ (props.version = Some(LATEST) /\ props.helmRepository = Undefined => status = "threw")
    /\ (status = "threw" =>
          /\ constructs = {}
          /\ manifests = NoManifests
          /\ serviceAccount = Undefined
          /\ chart = Undefined
          /\ deps = {}
          /\ deployed = {})
    /\ (Created /\ props.helmRepository # Undefined => TheChart.version = props.version)

C7_Witness ==
  /\ status = "threw"
  /\ props.version = Some(LATEST)
  /\ props.helmRepository = Undefined
  /\ constructs = {}

====
